---- MODULE Spec2Model ----
(***************************************************************************)
(* Model of the in-memory CRUD handlers of the demo API: the users router  *)
(* (src/src/routes/users.js), the products router (src/src/config/index.js)*)
(* and the tasks router (src/src/routes/index.js), together with the error *)
(* handling middleware (src/src/middleware/errorHandler.js).                *)
(*                                                                         *)
(* JavaScript strings are sequences of one-character strings, so that      *)
(* trim(), toLowerCase(), parseInt() and the regular expressions are       *)
(* computed rather than looked up.  JavaScript values that come from a     *)
(* JSON body are tagged records [type, s, n]; numbers are counted in       *)
(* hundredths (n = 7999 is 79.99) so that fractional prices and stocks     *)
(* exist.                                                                  *)
(***************************************************************************)
EXTENDS Integers, Sequences, FiniteSets, TLC

\* ------------------------------------------------------------------------
\* Bounds
\* ------------------------------------------------------------------------

\* number of requests handled in one behaviour
MaxRequests == 2

\* ------------------------------------------------------------------------
\* JavaScript values
\* ------------------------------------------------------------------------

Undefined == [type |-> "undefined", s |-> <<>>, n |-> 0]

Null == [type |-> "null", s |-> <<>>, n |-> 0]

Str(chars) == [type |-> "string", s |-> chars, n |-> 0]

\* a number, given in hundredths
Num(h) == [type |-> "number", s |-> <<>>, n |-> h]

\* ToBoolean: undefined, null, "" and 0 are falsy
Truthy(v) == \/ v.type = "string" /\ v.s # <<>>
             \/ v.type = "number" /\ v.n # 0

IsString(v) == v.type = "string"

\* Number.isInteger
IsInteger(v) == v.type = "number" /\ v.n % 100 = 0

\* the first operand whatever it is
OrElse_First(a, b) == a

\* a || b
OrElse(a, b) == IF Truthy(a) THEN a ELSE b

\* ------------------------------------------------------------------------
\* String functions
\* ------------------------------------------------------------------------

WhiteSpace == {" ", "\t", "\n", "\r"}

Digits == <<"0", "1", "2", "3", "4", "5", "6", "7", "8", "9">>

UpperCase == <<"A", "B", "C", "D", "E", "F", "G", "H", "I", "J", "K", "L", "M",
               "N", "O", "P", "Q", "R", "S", "T", "U", "V", "W", "X", "Y", "Z">>

LowerCase == <<"a", "b", "c", "d", "e", "f", "g", "h", "i", "j", "k", "l", "m",
               "n", "o", "p", "q", "r", "s", "t", "u", "v", "w", "x", "y", "z">>

IsDigit(c) == \E i \in 1..10 : Digits[i] = c

DigitVal(c) == (CHOOSE i \in 1..10 : Digits[i] = c) - 1

LowerChar(c) == IF \E i \in 1..26 : UpperCase[i] = c
                THEN LowerCase[CHOOSE i \in 1..26 : UpperCase[i] = c]
                ELSE c

\* String.prototype.toLowerCase
ToLowerCase(str) == [i \in 1..Len(str) |-> LowerChar(str[i])]

RECURSIVE TrimStart(_)
TrimStart(str) == IF str # <<>> /\ Head(str) \in WhiteSpace
                  THEN TrimStart(Tail(str))
                  ELSE str

RECURSIVE TrimEnd(_)
TrimEnd(str) == IF str # <<>> /\ str[Len(str)] \in WhiteSpace
                THEN TrimEnd(SubSeq(str, 1, Len(str) - 1))
                ELSE str

\* String.prototype.trim
Trim(str) == TrimEnd(TrimStart(str))

\* the characters i..j of str are all matched by [^\s@]
NoSpaceNoAt(str, i, j) == \A k \in i..j : str[k] \notin WhiteSpace /\ str[k] # "@"

\* /^[^\s@]+@[^\s@]+\.[^\s@]+$/.test(str)
EmailRegexTest(str) ==
    \E i \in 2..Len(str) : \E j \in (i + 2)..(Len(str) - 1) :
        /\ str[i] = "@"
        /\ str[j] = "."
        /\ NoSpaceNoAt(str, 1, i - 1)
        /\ NoSpaceNoAt(str, i + 1, j - 1)
        /\ NoSpaceNoAt(str, j + 1, Len(str))

\* /^\d{4}-\d{2}-\d{2}$/.test(str)
DateRegexTest(str) ==
    /\ Len(str) = 10
    /\ str[5] = "-"
    /\ str[8] = "-"
    /\ \A k \in {1, 2, 3, 4, 6, 7, 9, 10} : IsDigit(str[k])

\* the value of the longest prefix of decimal digits of str, after acc
RECURSIVE DigitsValue(_, _)
DigitsValue(str, acc) == IF str # <<>> /\ IsDigit(Head(str))
                         THEN DigitsValue(Tail(str), 10 * acc + DigitVal(Head(str)))
                         ELSE acc

NaN == [isNaN |-> TRUE, n |-> 0]

Int32(k) == [isNaN |-> FALSE, n |-> k]

\* parseInt(str) without a radix, for decimal input: leading white space is
\* skipped, one sign is read, then the longest prefix of digits; NaN when
\* there is no digit
ParseInt(str) ==
    LET t    == TrimStart(str)
        neg  == t # <<>> /\ Head(t) = "-"
        body == IF t # <<>> /\ Head(t) \in {"-", "+"} THEN Tail(t) ELSE t
    IN  IF body = <<>> \/ ~IsDigit(Head(body))
        THEN NaN
        ELSE Int32(IF neg THEN 0 - DigitsValue(body, 0) ELSE DigitsValue(body, 0))

\* Array.prototype.includes on an array of strings
Includes(arr, str) == \E i \in 1..Len(arr) : arr[i] = str

\* ------------------------------------------------------------------------
\* State
\* ------------------------------------------------------------------------

VARIABLES
    users,      \* the users array of the users router
    products,   \* the products array of the products router
    tasks,      \* the tasks array of the tasks router
    nodeEnv,    \* process.env.NODE_ENV
    clock,      \* the time new Date() returns; one tick for every request
    last,       \* the route and the parsed path id of the last request
    res,        \* the response to the last request
    passed,     \* the errors the handler of the last request passed to next()
    replies,    \* the number of responses the handler of the last request sent
    deletedIds, \* history: per kind, the ids of the entities deleted so far
    inflight,   \* the requests received whose handler has not run yet
    done        \* history: the requests received before their handler ran,
                \* in the order their handlers ran, each with its response

vars == <<users, products, tasks, nodeEnv, clock, last, res, passed, replies,
          deletedIds, inflight, done>>

Kinds == {"users", "products", "tasks"}

\* ------------------------------------------------------------------------
\* Responses and the error handling middleware
\* ------------------------------------------------------------------------

\* a message without and with an interpolated id
Msg(text) == [text |-> text, args |-> <<>>]

MsgId(text, id) == [text |-> text, args |-> <<id>>]

NoMsg == Msg("")

\* new Error(message) with error.statusCode = statusCode; statusCode 0 is an
\* error that carries no statusCode
Error(message, statusCode) == [message |-> message, statusCode |-> statusCode]

\* the TypeError a method call on a value without that method throws
TypeError(text) == Error(Msg(text), 0)

\* what a handler did: the store it leaves, the responses it sent and the
\* errors it passed to next() (a thrown error is passed to next() by the
\* router)
Reply(store, response) == [store |-> store, sent |-> <<response>>, passed |-> <<>>]

\* Fail that goes on to the response after next(error)
Fail_AndReply(store, error) ==
    [store |-> store, sent |-> <<error>>, passed |-> <<error>>]

\* return next(error): the handler ends with the error passed on
Fail(store, error) == [store |-> store, sent |-> <<>>, passed |-> <<error>>]

\* a response: its status and its JSON body; has is the set of keys of the
\* body, data is the array sent (or the one entity sent, as <<entity>>)
Json(status, has, count, data, message) ==
    [status |-> status, has |-> has, success |-> TRUE, count |-> count,
     data |-> data, message |-> message, error |-> NoMsg]

NoResponse == [status |-> 0, has |-> {}, success |-> FALSE, count |-> 0,
               data |-> <<>>, message |-> NoMsg, error |-> NoMsg]

\* res.json({success, count, data}) of a list route
JsonList(list) == Json(200, {"success", "count", "data"}, Len(list), list, NoMsg)

\* res.json({success, data}) or res.status(201).json({success, data})
JsonData(status, entity) == Json(status, {"success", "data"}, 0, <<entity>>, NoMsg)

\* res.json({success, message, data})
JsonMessage(status, text, entity) ==
    Json(status, {"success", "message", "data"}, 0, <<entity>>, Msg(text))

\* errorHandler answering every error with 500
errorHandler_Always500(err, env) ==
    [status |-> 500,
     has |-> IF env = "development" THEN {"success", "error", "stack"}
             ELSE {"success", "error"},
     success |-> FALSE, count |-> 0, data |-> <<>>, message |-> NoMsg,
     error |-> err.message]

errorHandler(err, env) ==
    LET statusCode == IF err.statusCode # 0 THEN err.statusCode ELSE 500
        message    == IF err.message.text # "" THEN err.message
                      ELSE Msg("Internal Server Error")
    IN  [status |-> statusCode,
         has |-> IF env = "development" THEN {"success", "error", "stack"}
                 ELSE {"success", "error"},
         success |-> FALSE, count |-> 0, data |-> <<>>, message |-> NoMsg,
         error |-> message]

\* the response the client gets for an outcome of a handler
Boundary(outcome, env) ==
    IF outcome.passed # <<>> THEN errorHandler(outcome.passed[1], env)
    ELSE outcome.sent[1]

\* ------------------------------------------------------------------------
\* Array helpers shared by the three routers
\* ------------------------------------------------------------------------

Ids(list) == {list[i].id : i \in 1..Len(list)}

MaxOf(set) == CHOOSE m \in set : \A k \in set : k <= m

\* NextId without the increment
NextId_Max(list) == IF Len(list) > 0 THEN MaxOf(Ids(list)) ELSE 1

\* NextId filling the first gap
NextId_FirstFree(list) ==
    CHOOSE k \in 1..(Len(list) + 1) : k \notin Ids(list) /\ \A j \in 1..(k - 1) : j \in Ids(list)

\* NextId counting the entities instead of taking the largest id
NextId_LengthPlusOne(list) == Len(list) + 1

\* list.length > 0 ? Math.max(...list.map((e) => e.id)) + 1 : 1
NextId(list) == IF Len(list) > 0 THEN MaxOf(Ids(list)) + 1 ELSE 1

\* the id read as a place in the array
FindIndex_Position(list, id) ==
    IF ~id.isNaN /\ id.n \in 1..Len(list) THEN id.n ELSE 0

\* list.findIndex((e) => e.id === id); 0 stands for -1, indexes start at 1
FindIndex(list, id) ==
    IF ~id.isNaN /\ \E i \in 1..Len(list) : list[i].id = id.n
    THEN CHOOSE i \in 1..Len(list) :
            /\ list[i].id = id.n
            /\ \A j \in 1..(i - 1) : list[j].id # id.n
    ELSE 0

\* list.push(entity)
Push(list, entity) == Append(list, entity)

\* the array without its last element
Splice_Pop(list, index) == SubSeq(list, 1, Len(list) - 1)

\* list.splice(index, 1)
Splice(list, index) == SubSeq(list, 1, index - 1) \o SubSeq(list, index + 1, Len(list))

\* NotFound with a message that leaves the id out
NotFound_NoId(kind, id) == Error(Msg(kind \o " not found"), 404)

\* `${kind} with ID ${id} not found`, status 404
NotFound(kind, id) == Error(MsgId(kind \o " with ID ${id} not found", id), 404)

\* ------------------------------------------------------------------------
\* Users router
\* ------------------------------------------------------------------------

\* EmailExists comparing the name
EmailExists_ByName(list, email) == \E i \in 1..Len(list) : list[i].name = email

\* users.find((u) => u.email === email) found a user
EmailExists(list, email) == \E i \in 1..Len(list) : list[i].email = email

\* EmailExistsForOther with the id test inverted
EmailExistsForOther_SameId(list, email, id) ==
    \E i \in 1..Len(list) : list[i].email = email /\ ~id.isNaN /\ list[i].id = id.n

\* users.find((u) => u.email === email && u.id !== id) found a user
EmailExistsForOther(list, email, id) ==
    \E i \in 1..Len(list) : list[i].email = email /\ (id.isNaN \/ list[i].id # id.n)

\* !name || !email
UserFieldMissing(body) == ~Truthy(body.name) \/ ~Truthy(body.email)

\* NoUserField with null tested in place of a missing email
NoUserField_NullEmail(body) == ~Truthy(body.name) /\ body.email = Null

\* !name && !email
NoUserField(body) == ~Truthy(body.name) /\ ~Truthy(body.email)

\* router.get("/")
UsersList(list) == Reply(list, JsonList(list))

\* router.get("/:id")
UsersGet(list, param) ==
    LET id    == ParseInt(param)
        index == FindIndex(list, id)
    IN  IF index = 0 THEN Fail(list, NotFound("User", id))
        ELSE Reply(list, JsonData(200, list[index]))

\* router.post("/")
UsersPost(list, body, now) ==
    LET name  == body.name
        email == body.email
        newUser == [id |-> NextId(list), name |-> name, email |-> email,
                    createdAt |-> now]
    IN  IF UserFieldMissing(body)
        THEN Fail(list, Error(Msg("Name and email are required"), 400))
        ELSE IF ~EmailRegexTest(email.s)
        THEN Fail(list, Error(Msg("Invalid email format"), 400))
        ELSE IF EmailExists(list, email)
        THEN Fail(list, Error(Msg("User with this email already exists"), 409))
        ELSE Reply(Push(list, newUser), JsonData(201, newUser))

\* router.put("/:id")
UsersPut(list, param, body) ==
    LET id        == ParseInt(param)
        userIndex == FindIndex(list, id)
        name      == body.name
        email     == body.email
        named     == IF Truthy(name)
                     THEN [list EXCEPT ![userIndex].name = name] ELSE list
        updated   == IF Truthy(email)
                     THEN [named EXCEPT ![userIndex].email = email] ELSE named
    IN  IF userIndex = 0 THEN Fail(list, NotFound("User", id))
        ELSE IF NoUserField(body)
        THEN Fail(list, Error(Msg("At least one field (name or email) is required for update"), 400))
        ELSE IF Truthy(email) /\ ~EmailRegexTest(email.s)
        THEN Fail(list, Error(Msg("Invalid email format"), 400))
        ELSE IF Truthy(email) /\ EmailExistsForOther(list, email, id)
        THEN Fail(list, Error(Msg("User with this email already exists"), 409))
        ELSE Reply(updated, JsonData(200, updated[userIndex]))

\* router.delete("/:id")
UsersDelete(list, param) ==
    LET id        == ParseInt(param)
        userIndex == FindIndex(list, id)
    IN  IF userIndex = 0 THEN Fail(list, NotFound("User", id))
        ELSE Reply(Splice(list, userIndex),
                   JsonMessage(200, "User deleted successfully", list[userIndex]))

\* ------------------------------------------------------------------------
\* Products router
\* ------------------------------------------------------------------------

\* list.filter((e) => e[field].toLowerCase() === value.toLowerCase())
RECURSIVE FilterByField(_, _, _)
FilterByField(list, field, value) ==
    IF list = <<>> THEN <<>>
    ELSE IF ToLowerCase(Head(list)[field].s) = ToLowerCase(value.s)
         THEN <<Head(list)>> \o FilterByField(Tail(list), field, value)
         ELSE FilterByField(Tail(list), field, value)

\* the rest of str after its longest prefix of decimal digits
RECURSIVE DropDigits(_)
DropDigits(str) == IF str # <<>> /\ IsDigit(Head(str)) THEN DropDigits(Tail(str)) ELSE str

\* the first two digits after a decimal point, as hundredths
Hundredths(frac) ==
    (IF Len(frac) >= 1 /\ IsDigit(frac[1]) THEN 10 * DigitVal(frac[1]) ELSE 0)
    + (IF Len(frac) >= 2 /\ IsDigit(frac[1]) /\ IsDigit(frac[2]) THEN DigitVal(frac[2]) ELSE 0)

\* parseFloat(str), in hundredths, for decimal input with at most two
\* fraction digits and no exponent; NaN when no number starts the string
ParseFloat(str) ==
    LET t     == TrimStart(str)
        neg   == t # <<>> /\ Head(t) = "-"
        body  == IF t # <<>> /\ Head(t) \in {"-", "+"} THEN Tail(t) ELSE t
        rest  == DropDigits(body)
        frac  == IF rest # <<>> /\ Head(rest) = "." THEN Tail(rest) ELSE <<>>
        whole == 100 * DigitsValue(body, 0) + Hundredths(frac)
    IN  IF rest = body /\ (frac = <<>> \/ ~IsDigit(Head(frac)))
        THEN NaN
        ELSE Int32(IF neg THEN 0 - whole ELSE whole)

\* products.filter((p) => p.price >= minPrice): no product passes when
\* minPrice is NaN
RECURSIVE PriceAtLeast(_, _)
PriceAtLeast(list, minPrice) ==
    IF list = <<>> THEN <<>>
    ELSE IF ~minPrice.isNaN /\ Head(list).price.n >= minPrice.n
         THEN <<Head(list)>> \o PriceAtLeast(Tail(list), minPrice)
         ELSE PriceAtLeast(Tail(list), minPrice)

\* products.filter((p) => p.price <= maxPrice)
RECURSIVE PriceAtMost(_, _)
PriceAtMost(list, maxPrice) ==
    IF list = <<>> THEN <<>>
    ELSE IF ~maxPrice.isNaN /\ Head(list).price.n <= maxPrice.n
         THEN <<Head(list)>> \o PriceAtMost(Tail(list), maxPrice)
         ELSE PriceAtMost(Tail(list), maxPrice)

\* router.get("/"); p.category.toLowerCase() throws for the first product
\* whose category is not a string
ProductsList(list, query) ==
    LET byCategory == IF Truthy(query.category)
                      THEN FilterByField(list, "category", query.category) ELSE list
        byMinPrice == IF Truthy(query.minPrice)
                      THEN PriceAtLeast(byCategory, ParseFloat(query.minPrice.s))
                      ELSE byCategory
        byMaxPrice == IF Truthy(query.maxPrice)
                      THEN PriceAtMost(byMinPrice, ParseFloat(query.maxPrice.s))
                      ELSE byMinPrice
    IN  IF Truthy(query.category) /\ \E i \in 1..Len(list) : ~IsString(list[i].category)
        THEN Fail(list, TypeError("p.category.toLowerCase is not a function"))
        ELSE Reply(list, JsonList(byMaxPrice))

\* router.get("/:id")
ProductsGet(list, param) ==
    LET id    == ParseInt(param)
        index == FindIndex(list, id)
    IN  IF index = 0 THEN Fail(list, NotFound("Product", id))
        ELSE Reply(list, JsonData(200, list[index]))

\* typeof price !== "number" || price < 0
BadPrice(price) == price.type # "number" \/ price.n < 0

\* BadStock without the Number.isInteger test
BadStock_AnyNumber(stock) == stock.type # "number" \/ stock.n < 0

\* typeof stock !== "number" || stock < 0 || !Number.isInteger(stock)
BadStock(stock) == stock.type # "number" \/ stock.n < 0 \/ ~IsInteger(stock)

\* !name || !description || price === undefined || !category ||
\* stock === undefined
ProductFieldMissing(body) ==
    \/ ~Truthy(body.name) \/ ~Truthy(body.description) \/ body.price = Undefined
    \/ ~Truthy(body.category) \/ body.stock = Undefined

\* !name && !description && price === undefined && !category &&
\* stock === undefined
NoProductField(body) ==
    /\ ~Truthy(body.name) /\ ~Truthy(body.description) /\ body.price = Undefined
    /\ ~Truthy(body.category) /\ body.stock = Undefined

\* router.post("/")
ProductsPost(list, body, now) ==
    LET newProduct == [id |-> NextId(list), name |-> body.name,
                       description |-> body.description, price |-> body.price,
                       category |-> body.category, stock |-> body.stock,
                       createdAt |-> now]
    IN  IF ProductFieldMissing(body)
        THEN Fail(list, Error(Msg("Name, description, price, category, and stock are required"), 400))
        ELSE IF BadPrice(body.price)
        THEN Fail(list, Error(Msg("Price must be a positive number"), 400))
        ELSE IF BadStock(body.stock)
        THEN Fail(list, Error(Msg("Stock must be a non-negative integer"), 400))
        ELSE Reply(Push(list, newProduct), JsonData(201, newProduct))

\* ProductAssign copying the whole body as Object.assign(product, body)
\* would
ProductAssign_ObjectAssign(product, body) ==
    [product EXCEPT
        !.id          = body.id.n \div 100,
        !.createdAt   = 0,
        !.name        = IF Truthy(body.name) THEN body.name ELSE @,
        !.description = IF Truthy(body.description) THEN body.description ELSE @,
        !.price       = IF body.price # Undefined THEN body.price ELSE @,
        !.category    = IF Truthy(body.category) THEN body.category ELSE @,
        !.stock       = IF body.stock # Undefined THEN body.stock ELSE @]

\* the assignments of router.put("/:id"): only the provided fields
ProductAssign(product, body) ==
    [product EXCEPT
        !.name        = IF Truthy(body.name) THEN body.name ELSE @,
        !.description = IF Truthy(body.description) THEN body.description ELSE @,
        !.price       = IF body.price # Undefined THEN body.price ELSE @,
        !.category    = IF Truthy(body.category) THEN body.category ELSE @,
        !.stock       = IF body.stock # Undefined THEN body.stock ELSE @]

\* router.put("/:id")
ProductsPut(list, param, body) ==
    LET id           == ParseInt(param)
        productIndex == FindIndex(list, id)
        updated      == [list EXCEPT ![productIndex] = ProductAssign(@, body)]
    IN  IF productIndex = 0 THEN Fail(list, NotFound("Product", id))
        ELSE IF NoProductField(body)
        THEN Fail(list, Error(Msg("At least one field is required for update"), 400))
        ELSE IF body.price # Undefined /\ BadPrice(body.price)
        THEN Fail(list, Error(Msg("Price must be a positive number"), 400))
        ELSE IF body.stock # Undefined /\ BadStock(body.stock)
        THEN Fail(list, Error(Msg("Stock must be a non-negative integer"), 400))
        ELSE Reply(updated, JsonData(200, updated[productIndex]))

\* router.delete("/:id")
ProductsDelete(list, param) ==
    LET id           == ParseInt(param)
        productIndex == FindIndex(list, id)
    IN  IF productIndex = 0 THEN Fail(list, NotFound("Product", id))
        ELSE Reply(Splice(list, productIndex),
                   JsonMessage(200, "Product deleted successfully", list[productIndex]))

\* ------------------------------------------------------------------------
\* Tasks router
\* ------------------------------------------------------------------------

s_pending == <<"p", "e", "n", "d", "i", "n", "g">>

s_in_progress == <<"i", "n", "-", "p", "r", "o", "g", "r", "e", "s", "s">>

s_completed == <<"c", "o", "m", "p", "l", "e", "t", "e", "d">>

s_low == <<"l", "o", "w">>

s_medium == <<"m", "e", "d", "i", "u", "m">>

s_high == <<"h", "i", "g", "h">>

s_title == <<"t", "i", "t", "l", "e">>

s_priority == <<"p", "r", "i", "o", "r", "i", "t", "y">>

s_dueDate == <<"d", "u", "e", "D", "a", "t", "e">>

s_createdAt == <<"c", "r", "e", "a", "t", "e", "d", "A", "t">>

\* validStatuses with one more value
validStatuses_WithBogus == <<s_pending, s_in_progress, s_completed, <<"b", "o", "g", "u", "s">>>>

\* const validStatuses = ["pending", "in-progress", "completed"]
validStatuses == <<s_pending, s_in_progress, s_completed>>

validPriorities == <<s_low, s_medium, s_high>>

validSortFields == <<s_title, s_priority, s_dueDate, s_createdAt>>

\* const priorityOrder = { low: 1, medium: 2, high: 3 }; a priority that is
\* not a key gives undefined, and the difference is then NaN
priorityOrder(priority) ==
    IF priority = Str(s_low) THEN Int32(1)
    ELSE IF priority = Str(s_medium) THEN Int32(2)
    ELSE IF priority = Str(s_high) THEN Int32(3)
    ELSE NaN

\* the ASCII characters of codes 32 to 95; the lower case letters follow
\* from code 97
Ascii == <<" ", "!", "\"", "#", "$", "%", "&", "'", "(", ")", "*", "+", ",", "-", ".", "/",
           "0", "1", "2", "3", "4", "5", "6", "7", "8", "9", ":", ";", "<", "=", ">", "?",
           "@", "A", "B", "C", "D", "E", "F", "G", "H", "I", "J", "K", "L", "M", "N", "O",
           "P", "Q", "R", "S", "T", "U", "V", "W", "X", "Y", "Z", "[", "\\", "]", "^", "_">>

\* String.prototype.charCodeAt for one character
CharCode(c) == IF \E i \in 1..26 : LowerCase[i] = c
               THEN 96 + CHOOSE i \in 1..26 : LowerCase[i] = c
               ELSE 31 + CHOOSE i \in 1..Len(Ascii) : Ascii[i] = c

\* a < b on strings: by code units, a proper prefix first
RECURSIVE StringLess(_, _)
StringLess(a, b) ==
    IF b = <<>> THEN FALSE
    ELSE IF a = <<>> THEN TRUE
    ELSE IF Head(a) = Head(b) THEN StringLess(Tail(a), Tail(b))
    ELSE CharCode(Head(a)) < CharCode(Head(b))

\* days from 1970-01-01 to the first day of year y
DaysToYear(y) ==
    365 * (y - 1970) + ((y - 1969) \div 4) - ((y - 1901) \div 100) + ((y - 1601) \div 400)

IsLeapYear(y) == (y % 4 = 0 /\ y % 100 # 0) \/ y % 400 = 0

DaysBeforeMonth(y, m) ==
    <<0, 31, 59, 90, 120, 151, 181, 212, 243, 273, 304, 334>>[m]
    + (IF m > 2 /\ IsLeapYear(y) THEN 1 ELSE 0)

\* new Date(value) as a day number: null is the epoch, a YYYY-MM-DD string
\* is that calendar day, a string with no such month or day is Invalid Date
DateValue(value) ==
    IF value = Null THEN Int32(0)
    ELSE IF ~IsString(value) \/ ~DateRegexTest(value.s) THEN NaN
    ELSE LET y == DigitsValue(SubSeq(value.s, 1, 4), 0)
             m == DigitsValue(SubSeq(value.s, 6, 7), 0)
             d == DigitsValue(SubSeq(value.s, 9, 10), 0)
         IN  IF m < 1 \/ m > 12 \/ d < 1 \/ d > 31 THEN NaN
             ELSE Int32(DaysToYear(y) + DaysBeforeMonth(y, m) + d - 1)

Sign(k) == IF k < 0 THEN -1 ELSE IF k > 0 THEN 1 ELSE 0

\* the difference a - b of two numbers as the sort sees it: NaN counts as 0
Difference(a, b) == IF a.isNaN \/ b.isNaN THEN 0 ELSE Sign(a.n - b.n)

\* the comparator of filteredTasks.sort(...), as a sign
Compare(a, b, sortField, sortOrder) ==
    IF sortField = s_priority
    THEN Difference(priorityOrder(a.priority), priorityOrder(b.priority)) * sortOrder
    ELSE IF sortField = s_dueDate
    THEN Difference(DateValue(a.dueDate), DateValue(b.dueDate)) * sortOrder
    ELSE IF sortField = s_createdAt
    THEN Sign(a.createdAt - b.createdAt) * sortOrder
    ELSE IF StringLess(a.title.s, b.title.s) THEN -1 * sortOrder
    ELSE IF StringLess(b.title.s, a.title.s) THEN 1 * sortOrder
    ELSE 0

\* entity put into a sorted array behind every element that does not compare
\* greater: the step of a stable sort
RECURSIVE Insert(_, _, _, _)
Insert(sorted, entity, sortField, sortOrder) ==
    IF sorted = <<>> THEN <<entity>>
    ELSE IF Compare(Head(sorted), entity, sortField, sortOrder) > 0
         THEN <<entity>> \o sorted
         ELSE <<Head(sorted)>> \o Insert(Tail(sorted), entity, sortField, sortOrder)

\* Sort that sorts ascending and reverses the result for a descending order
RECURSIVE Sort_ReverseForDesc(_, _, _)
Sort_ReverseForDesc(list, sortField, sortOrder) ==
    IF list = <<>> THEN <<>>
    ELSE IF sortOrder = 1
    THEN Insert(Sort_ReverseForDesc(SubSeq(list, 1, Len(list) - 1), sortField, 1),
                list[Len(list)], sortField, 1)
    ELSE LET ascending == Sort_ReverseForDesc(list, sortField, 1)
         IN  [i \in 1..Len(list) |-> ascending[Len(list) + 1 - i]]

\* Array.prototype.sort with the comparator above (the sort is stable)
RECURSIVE Sort(_, _, _)
Sort(list, sortField, sortOrder) ==
    IF list = <<>> THEN <<>>
    ELSE Insert(Sort(SubSeq(list, 1, Len(list) - 1), sortField, sortOrder),
                list[Len(list)], sortField, sortOrder)

s_desc == <<"d", "e", "s", "c">>

\* the tasks array after a sort in place of the array itself
StoreAfterSort_InPlace(list, sorted) == sorted

\* let filteredTasks = [...tasks]: filteredTasks.sort() sorts a copy, and the
\* tasks array keeps its order
StoreAfterSort(list, sorted) == list

\* router.get("/")
TasksList(list, query) ==
    LET byStatus   == IF /\ Truthy(query.status)
                         /\ Includes(validStatuses, ToLowerCase(query.status.s))
                      THEN FilterByField(list, "status", query.status) ELSE list
        byPriority == IF /\ Truthy(query.priority)
                         /\ Includes(validPriorities, ToLowerCase(query.priority.s))
                      THEN FilterByField(byStatus, "priority", query.priority)
                      ELSE byStatus
        sortOrder  == IF query.order = Str(s_desc) THEN -1 ELSE 1
        sorted     == IF Truthy(query.sortBy) /\ Includes(validSortFields, query.sortBy.s)
                      THEN Sort(byPriority, query.sortBy.s, sortOrder)
                      ELSE byPriority
    IN  Reply(StoreAfterSort(list, sorted), JsonList(sorted))

\* InvalidTaskId answered as a lookup miss
InvalidTaskId_AsMiss == Error(Msg("Invalid task ID"), 404)

InvalidTaskId == Error(Msg("Invalid task ID"), 400)

\* router.get("/:id")
TasksGet(list, param) ==
    LET id    == ParseInt(param)
        index == FindIndex(list, id)
    IN  IF id.isNaN THEN Fail(list, InvalidTaskId)
        ELSE IF index = 0 THEN Fail(list, NotFound("Task", id))
        ELSE Reply(list, JsonData(200, list[index]))

\* LowerCased that stores the value as given
LowerCased_AsGiven(value) == value

\* status.toLowerCase() and priority.toLowerCase() where the value is stored
LowerCased(value) == Str(ToLowerCase(value.s))

\* !validStatuses.includes(status.toLowerCase()), for a string
NotOneOf(valid, value) == ~Includes(valid, ToLowerCase(value.s))

\* dateRegex.test(dueDate): a value that is not a string is converted first,
\* and no number converts to a string of that form
DateFormatOk(dueDate) == IsString(dueDate) /\ DateRegexTest(dueDate.s)

InvalidStatus == Error(Msg("Invalid status. Must be one of: pending, in-progress, completed"), 400)

InvalidPriority == Error(Msg("Invalid priority. Must be one of: low, medium, high"), 400)

InvalidDate == Error(Msg("Invalid date format. Use YYYY-MM-DD"), 400)

\* the description kept as the body gives it when the body has none
TrimOrEmpty_AsGiven(description) == IF Truthy(description) THEN Str(Trim(description.s)) ELSE description

\* description ? description.trim() : ""
TrimOrEmpty(description) == IF Truthy(description) THEN Str(Trim(description.s)) ELSE Str(<<>>)

\* router.post("/")
TasksPost(list, body, now) ==
    LET title       == body.title
        description == body.description
        status      == body.status
        priority    == body.priority
        dueDate     == body.dueDate
        newTask == [id |-> NextId(list),
                    title |-> Str(Trim(title.s)),
                    description |-> TrimOrEmpty(description),
                    status |-> IF Truthy(status) THEN LowerCased(status)
                               ELSE Str(s_pending),
                    priority |-> IF Truthy(priority) THEN LowerCased(priority)
                                 ELSE Str(s_medium),
                    dueDate |-> OrElse(dueDate, Null),
                    createdAt |-> now,
                    updatedAt |-> now]
    IN  IF ~Truthy(title) THEN Fail(list, Error(Msg("Title is required"), 400))
        ELSE IF ~IsString(title) THEN Fail(list, TypeError("title.trim is not a function"))
        ELSE IF Trim(title.s) = <<>> THEN Fail(list, Error(Msg("Title is required"), 400))
        ELSE IF Truthy(status) /\ ~IsString(status)
        THEN Fail(list, TypeError("status.toLowerCase is not a function"))
        ELSE IF Truthy(status) /\ NotOneOf(validStatuses, status)
        THEN Fail(list, InvalidStatus)
        ELSE IF Truthy(priority) /\ ~IsString(priority)
        THEN Fail(list, TypeError("priority.toLowerCase is not a function"))
        ELSE IF Truthy(priority) /\ NotOneOf(validPriorities, priority)
        THEN Fail(list, InvalidPriority)
        ELSE IF Truthy(dueDate) /\ ~DateFormatOk(dueDate)
        THEN Fail(list, InvalidDate)
        ELSE IF Truthy(description) /\ ~IsString(description)
        THEN Fail(list, TypeError("description.trim is not a function"))
        ELSE Reply(Push(list, newTask), JsonMessage(201, "Task created successfully", newTask))

\* router.put("/:id")
TasksPut(list, param, body, now) ==
    LET id          == ParseInt(param)
        taskIndex   == FindIndex(list, id)
        title       == body.title
        description == body.description
        status      == body.status
        priority    == body.priority
        dueDate     == body.dueDate
        replaced == [list[taskIndex] EXCEPT
                        !.title       = Str(Trim(title.s)),
                        !.description = TrimOrEmpty(description),
                        !.status      = LowerCased(status),
                        !.priority    = LowerCased(priority),
                        !.dueDate     = OrElse(dueDate, Null),
                        !.updatedAt   = now]
        updated  == [list EXCEPT ![taskIndex] = replaced]
    IN  IF id.isNaN THEN Fail(list, InvalidTaskId)
        ELSE IF taskIndex = 0 THEN Fail(list, NotFound("Task", id))
        ELSE IF ~Truthy(title) THEN Fail(list, Error(Msg("Title is required for update"), 400))
        ELSE IF ~IsString(title) THEN Fail(list, TypeError("title.trim is not a function"))
        ELSE IF Trim(title.s) = <<>>
        THEN Fail(list, Error(Msg("Title is required for update"), 400))
        ELSE IF Truthy(status) /\ ~IsString(status)
        THEN Fail(list, TypeError("status.toLowerCase is not a function"))
        ELSE IF ~Truthy(status) \/ NotOneOf(validStatuses, status)
        THEN Fail(list, Error(Msg("Status is required and must be one of: pending, in-progress, completed"), 400))
        ELSE IF Truthy(priority) /\ ~IsString(priority)
        THEN Fail(list, TypeError("priority.toLowerCase is not a function"))
        ELSE IF ~Truthy(priority) \/ NotOneOf(validPriorities, priority)
        THEN Fail(list, Error(Msg("Priority is required and must be one of: low, medium, high"), 400))
        ELSE IF Truthy(dueDate) /\ ~DateFormatOk(dueDate)
        THEN Fail(list, InvalidDate)
        ELSE IF Truthy(description) /\ ~IsString(description)
        THEN Fail(list, TypeError("description.trim is not a function"))
        ELSE Reply(updated, JsonMessage(200, "Task updated successfully", updated[taskIndex]))

\* NoTaskField with the dueDate test inverted
NoTaskField_DueDateDefined(body) ==
    /\ ~Truthy(body.title) /\ ~Truthy(body.description) /\ ~Truthy(body.status)
    /\ ~Truthy(body.priority) /\ body.dueDate # Undefined

\* !title && !description && !status && !priority && dueDate === undefined
NoTaskField(body) ==
    /\ ~Truthy(body.title) /\ ~Truthy(body.description) /\ ~Truthy(body.status)
    /\ ~Truthy(body.priority) /\ body.dueDate = Undefined

\* router.patch("/:id"): the fields are checked and assigned one after the
\* other, so an error found at a later field leaves the earlier assignments
\* in the store
TasksPatch(list, param, body, now) ==
    LET id          == ParseInt(param)
        taskIndex   == FindIndex(list, id)
        title       == body.title
        description == body.description
        status      == body.status
        priority    == body.priority
        dueDate     == body.dueDate
        old         == list[taskIndex]
        titled      == IF title # Undefined
                       THEN [old EXCEPT !.title = Str(Trim(title.s))] ELSE old
        described   == IF description # Undefined
                       THEN [titled EXCEPT !.description = Str(Trim(description.s))]
                       ELSE titled
        statused    == IF Truthy(status)
                       THEN [described EXCEPT !.status = LowerCased(status)]
                       ELSE described
        prioritized == IF Truthy(priority)
                       THEN [statused EXCEPT !.priority = LowerCased(priority)]
                       ELSE statused
        dated       == IF dueDate = Undefined THEN prioritized
                       ELSE IF dueDate = Null \/ dueDate = Str(<<>>)
                       THEN [prioritized EXCEPT !.dueDate = Null]
                       ELSE [prioritized EXCEPT !.dueDate = dueDate]
        stamped     == [dated EXCEPT !.updatedAt = now]
        With(task)  == [list EXCEPT ![taskIndex] = task]
    IN  IF id.isNaN THEN Fail(list, InvalidTaskId)
        ELSE IF taskIndex = 0 THEN Fail(list, NotFound("Task", id))
        ELSE IF NoTaskField(body)
        THEN Fail(list, Error(Msg("At least one field is required for update"), 400))
        ELSE IF title # Undefined /\ ~Truthy(title)
        THEN Fail(list, Error(Msg("Title cannot be empty"), 400))
        ELSE IF title # Undefined /\ ~IsString(title)
        THEN Fail(list, TypeError("title.trim is not a function"))
        ELSE IF title # Undefined /\ Trim(title.s) = <<>>
        THEN Fail(list, Error(Msg("Title cannot be empty"), 400))
        ELSE IF description # Undefined /\ ~IsString(description)
        THEN Fail(With(titled), TypeError("description.trim is not a function"))
        ELSE IF Truthy(status) /\ ~IsString(status)
        THEN Fail(With(described), TypeError("status.toLowerCase is not a function"))
        ELSE IF Truthy(status) /\ NotOneOf(validStatuses, status)
        THEN Fail(With(described), InvalidStatus)
        ELSE IF Truthy(priority) /\ ~IsString(priority)
        THEN Fail(With(statused), TypeError("priority.toLowerCase is not a function"))
        ELSE IF Truthy(priority) /\ NotOneOf(validPriorities, priority)
        THEN Fail(With(statused), InvalidPriority)
        ELSE IF /\ dueDate # Undefined /\ dueDate # Null /\ dueDate # Str(<<>>)
                /\ ~DateFormatOk(dueDate)
        THEN Fail(With(prioritized), InvalidDate)
        ELSE Reply(With(stamped), JsonMessage(200, "Task updated successfully", stamped))

\* router.delete("/:id")
TasksDelete(list, param) ==
    LET id        == ParseInt(param)
        taskIndex == FindIndex(list, id)
    IN  IF id.isNaN THEN Fail(list, InvalidTaskId)
        ELSE IF taskIndex = 0 THEN Fail(list, NotFound("Task", id))
        ELSE Reply(Splice(list, taskIndex),
                   JsonMessage(200, "Task deleted successfully", list[taskIndex]))

\* ------------------------------------------------------------------------
\* The arrays as the modules create them
\* ------------------------------------------------------------------------

s_john == <<"j", "o", "h", "n", "@", "e", "x", "a", "m", "p", "l", "e", ".", "c", "o", "m">>

s_jane == <<"j", "a", "n", "e", "@", "e", "x", "a", "m", "p", "l", "e", ".", "c", "o", "m">>

initialUsers ==
    <<[id |-> 1, name |-> Str(<<"J", "o", "h", "n", " ", "D", "o", "e">>),
       email |-> Str(s_john), createdAt |-> 0],
      [id |-> 2, name |-> Str(<<"J", "a", "n", "e", " ", "S", "m", "i", "t", "h">>),
       email |-> Str(s_jane), createdAt |-> 0]>>

s_Sports == <<"S", "p", "o", "r", "t", "s">>

initialProducts ==
    <<[id |-> 1, name |-> Str(<<"L", "a", "p", "t", "o", "p">>),
       description |-> Str(<<"H", "i", "g", "h", "-", "p", "e", "r", "f", "o", "r", "m", "a",
               "n", "c", "e", " ", "l", "a", "p", "t", "o", "p">>),
       price |-> Num(99999), category |-> Str(<<"E", "l", "e", "c", "t", "r", "o", "n", "i", "c", "s">>),
       stock |-> Num(1500), createdAt |-> 0],
      [id |-> 2, name |-> Str(<<"C", "o", "f", "f", "e", "e", " ", "M", "a", "k", "e", "r">>),
       description |-> Str(<<"P", "r", "o", "g", "r", "a", "m", "m", "a", "b", "l", "e", " ",
               "c", "o", "f", "f", "e", "e", " ", "m", "a", "k", "e", "r">>),
       price |-> Num(7999), category |-> Str(<<"A", "p", "p", "l", "i", "a", "n", "c", "e", "s">>),
       stock |-> Num(3000), createdAt |-> 0],
      [id |-> 3, name |-> Str(<<"R", "u", "n", "n", "i", "n", "g", " ", "S", "h", "o", "e", "s">>),
       description |-> Str(<<"C", "o", "m", "f", "o", "r", "t", "a", "b", "l", "e", " ", "r",
               "u", "n", "n", "i", "n", "g", " ", "s", "h", "o", "e", "s">>),
       price |-> Num(12999), category |-> Str(s_Sports),
       stock |-> Num(2500), createdAt |-> 0]>>

initialTasks ==
    <<[id |-> 1, title |-> Str(<<"C", "o", "m", "p", "l", "e", "t", "e", " ", "p", "r", "o",
            "j", "e", "c", "t", " ", "d", "o", "c", "u", "m", "e", "n", "t", "a", "t", "i", "o", "n">>),
       description |-> Str(<<"W", "r", "i", "t", "e", " ", "c", "o", "m", "p", "r", "e", "h",
               "e", "n", "s", "i", "v", "e", " ", "d", "o", "c", "u", "m", "e", "n", "t", "a", "t", "i", "o", "n", " ", "f", "o", "r", " ", "t", "h", "e", " ", "N", "o", "d", "e", ".", "j", "s", " ", "A", "P", "I", " ", "p", "r", "o", "j", "e", "c", "t">>),
       status |-> Str(s_pending), priority |-> Str(s_high),
       dueDate |-> Str(<<"2", "0", "2", "4", "-", "1", "2", "-", "3", "1">>),
       createdAt |-> 0, updatedAt |-> 0],
      [id |-> 2, title |-> Str(<<"R", "e", "v", "i", "e", "w", " ", "c", "o", "d", "e", " ",
              "c", "h", "a", "n", "g", "e", "s">>),
       description |-> Str(<<"R", "e", "v", "i", "e", "w", " ", "a", "n", "d", " ", "m", "e",
               "r", "g", "e", " ", "p", "u", "l", "l", " ", "r", "e", "q", "u", "e", "s", "t", " ", "#", "4", "2">>),
       status |-> Str(s_in_progress), priority |-> Str(s_medium),
       dueDate |-> Str(<<"2", "0", "2", "4", "-", "1", "2", "-", "2", "0">>),
       createdAt |-> 0, updatedAt |-> 0],
      [id |-> 3, title |-> Str(<<"U", "p", "d", "a", "t", "e", " ", "d", "e", "p", "e", "n",
              "d", "e", "n", "c", "i", "e", "s">>),
       description |-> Str(<<"U", "p", "d", "a", "t", "e", " ", "n", "p", "m", " ", "p", "a",
               "c", "k", "a", "g", "e", "s", " ", "t", "o", " ", "l", "a", "t", "e", "s", "t", " ", "v", "e", "r", "s", "i", "o", "n", "s">>),
       status |-> Str(s_completed), priority |-> Str(s_low),
       dueDate |-> Str(<<"2", "0", "2", "4", "-", "1", "2", "-", "1", "5">>),
       createdAt |-> 0, updatedAt |-> 0]>>

\* ------------------------------------------------------------------------
\* Requests
\* ------------------------------------------------------------------------

\* the :id path parameters of the user routes: the ids of the users as
\* created, the id of the next user and one that is not a number
PathParams == {<<"1">>, <<"2">>, <<"3">>, <<"a", "b", "c">>}

\* the :id path parameters of the product and task routes: the first and
\* the last id of the array as created, the id of the next entity and one
\* that is not a number
PathParams4 == {<<"1">>, <<"3">>, <<"4">>, <<"a", "b", "c">>}

\* the :id path parameters of the PUT and PATCH routes of products and tasks:
\* the first id of the array as created, the id of the next entity and one
\* that is not a number
UpdateParams == {<<"1">>, <<"4">>, <<"a", "b", "c">>}

\* fields of a request body that no handler reads: the destructuring of
\* req.body takes the fields of the kind only
BodyId == Num(9900)

BodyCreatedAt == Str(<<"1", "9", "9", "9">>)

s_Al == <<"A", "l">>

s_new == <<"a", "l", "@", "x", ".", "i", "o">>

s_noTld == <<"a", "l", "@", "x">>

UserBody(name, email) ==
    [name |-> name, email |-> email, id |-> BodyId, createdAt |-> BodyCreatedAt]

UserBodies == {UserBody(name, email) :
                 name \in {Undefined, Str(s_Al)},
                 email \in {Undefined, Str(s_john), Str(s_new), Str(s_noTld)}}
              \cup {UserBody(Str(<<" ">>), Str(s_new))}

s_Pen == <<"P", "e", "n">>

s_ink == <<"i", "n", "k">>

ProductBody(name, description, price, category, stock) ==
    [name |-> name, description |-> description, price |-> price,
     category |-> category, stock |-> stock,
     id |-> BodyId, createdAt |-> BodyCreatedAt]

ProductBodies ==
    {ProductBody(Undefined, Undefined, Undefined, Undefined, Undefined),
     ProductBody(Str(s_Pen), Str(s_ink), Num(0), Str(s_Sports), Num(0)),
     ProductBody(Str(s_Pen), Undefined, Num(250), Num(500), Num(200)),
     ProductBody(Str(s_Pen), Str(s_ink), Num(-100), Str(s_Sports), Num(200)),
     ProductBody(Str(s_Pen), Str(s_ink), Num(250), Str(s_Sports), Num(150)),
     ProductBody(Str(s_Pen), Str(s_ink), Str(<<"5">>), Str(s_Sports), Num(200)),
     ProductBody(Undefined, Undefined, Num(250), Undefined, Undefined),
     ProductBody(Undefined, Undefined, Undefined, Undefined, Num(-100))}

s_7999 == <<"7", "9", ".", "9", "9">>

s_12999 == <<"1", "2", "9", ".", "9", "9">>

ProductQuery(category, minPrice, maxPrice) ==
    [category |-> category, minPrice |-> minPrice, maxPrice |-> maxPrice]

ProductQueries ==
    {ProductQuery(Undefined, Undefined, Undefined),
     ProductQuery(Str(ToLowerCase(s_Sports)), Undefined, Undefined),
     ProductQuery(Undefined, Str(s_7999), Str(s_12999)),
     ProductQuery(Undefined, Str(<<"a", "b", "c">>), Undefined),
     ProductQuery(Str(ToLowerCase(s_Sports)), Str(<<"0">>), Str(s_12999))}

s_A == <<"A">>

s_B_padded == <<" ", "B", " ">>

s_COMPLETED == <<"C", "O", "M", "P", "L", "E", "T", "E", "D">>

s_High == <<"H", "i", "g", "h">>

s_bogus == <<"b", "o", "g", "u", "s">>

s_urgent == <<"u", "r", "g", "e", "n", "t">>

s_tomorrow == <<"t", "o", "m", "o", "r", "r", "o", "w">>

s_date == <<"2", "0", "2", "5", "-", "0", "1", "-", "0", "2">>

TaskBody(title, description, status, priority, dueDate) ==
    [title |-> title, description |-> description, status |-> status,
     priority |-> priority, dueDate |-> dueDate,
     id |-> BodyId, createdAt |-> BodyCreatedAt]

TaskBodies ==
    {TaskBody(Undefined, Undefined, Undefined, Undefined, Undefined),
     TaskBody(Str(s_A), Undefined, Undefined, Undefined, Undefined),
     TaskBody(Str(s_B_padded), Str(s_ink), Str(s_COMPLETED), Str(s_High), Str(s_date)),
     TaskBody(Str(s_A), Undefined, Str(s_bogus), Undefined, Undefined),
     TaskBody(Undefined, Undefined, Str(s_completed), Undefined, Undefined),
     TaskBody(Undefined, Undefined, Undefined, Str(s_urgent), Undefined),
     TaskBody(Str(<<" ">>), Undefined, Undefined, Undefined, Undefined),
     TaskBody(Num(700), Undefined, Undefined, Undefined, Undefined),
     TaskBody(Undefined, Undefined, Undefined, Undefined, Null),
     TaskBody(Undefined, Undefined, Str(s_completed), Undefined, Str(s_tomorrow)),
     TaskBody(Str(s_A), Undefined, Str(s_completed), Str(s_low), Undefined)}

TaskQuery(status, priority, sortBy, order) ==
    [status |-> status, priority |-> priority, sortBy |-> sortBy, order |-> order]

TaskQueries ==
    {TaskQuery(Undefined, Undefined, Undefined, Undefined),
     TaskQuery(Str(s_COMPLETED), Str(s_urgent), Undefined, Undefined),
     TaskQuery(Str(s_pending), Str(s_High), Undefined, Undefined),
     TaskQuery(Str(s_bogus), Str(s_high), Undefined, Undefined),
     TaskQuery(Undefined, Undefined, Str(s_priority), Undefined),
     TaskQuery(Undefined, Undefined, Str(s_priority), Str(s_desc)),
     TaskQuery(Undefined, Undefined, Str(s_dueDate), Undefined),
     TaskQuery(Undefined, Undefined, Str(s_title), Str(s_desc)),
     TaskQuery(Undefined, Undefined, Str(s_bogus), Undefined),
     TaskQuery(Str(s_pending), Undefined, Str(s_priority), Undefined)}

\* the time the next request is handled at: requests are handled one after
\* the other, each at a later time than the one before
Now == clock + 1

NoParam == <<>>

\* ------------------------------------------------------------------------
\* Initial state and requests
\* ------------------------------------------------------------------------

Init ==
    /\ users = initialUsers
    /\ products = initialProducts
    /\ tasks = initialTasks
    /\ nodeEnv \in {"development", "production"}
    /\ clock = 0
    /\ last = [kind |-> "", method |-> "", param |-> NoParam]
    /\ res = NoResponse
    /\ passed = <<>>
    /\ replies = 0
    /\ deletedIds = [kind \in Kinds |-> {}]
    /\ inflight = {}
    /\ done = <<>>

\* the response to a request and the bookkeeping of the model
Answer(kind, method, param, outcome) ==
    /\ res' = Boundary(outcome, nodeEnv)
    /\ passed' = outcome.passed
    /\ replies' = Len(outcome.sent)
    /\ last' = [kind |-> kind, method |-> method, param |-> param]
    /\ clock' = Now
    /\ UNCHANGED nodeEnv

\* the response to a request that is handled as soon as it is received
Respond(kind, method, param, outcome) ==
    /\ Answer(kind, method, param, outcome)
    /\ UNCHANGED <<inflight, done>>

\* the ids deleted so far, after a delete request with this outcome
Deleted(kind, list, outcome) ==
    [deletedIds EXCEPT ![kind] = @ \cup (Ids(list) \ Ids(outcome.store))]

\* one GET request handled by UsersList
UsersListReq ==
    /\ clock < MaxRequests
    /\ users' = UsersList(users).store
    /\ Respond("users", "GET", NoParam, UsersList(users))
    /\ UNCHANGED <<products, tasks, deletedIds>>

\* one GET request handled by UsersGet
UsersGetOn(param) ==
    /\ clock < MaxRequests
    /\ users' = UsersGet(users, param).store
    /\ Respond("users", "GET", param, UsersGet(users, param))
    /\ UNCHANGED <<products, tasks, deletedIds>>

UsersGetReq == \E param \in PathParams : UsersGetOn(param)

\* one POST request handled by UsersPost
UsersPostOn(body) ==
    /\ clock < MaxRequests
    /\ users' = UsersPost(users, body, Now).store
    /\ Respond("users", "POST", NoParam, UsersPost(users, body, Now))
    /\ UNCHANGED <<products, tasks, deletedIds>>

UsersPostReq == \E body \in UserBodies : UsersPostOn(body)

\* one PUT request handled by UsersPut
UsersPutOn(param, body) ==
    /\ clock < MaxRequests
    /\ users' = UsersPut(users, param, body).store
    /\ Respond("users", "PUT", param, UsersPut(users, param, body))
    /\ UNCHANGED <<products, tasks, deletedIds>>

UsersPutReq == \E param \in PathParams, body \in UserBodies : UsersPutOn(param, body)

\* one DELETE request handled by UsersDelete
UsersDeleteOn(param) ==
    /\ clock < MaxRequests
    /\ users' = UsersDelete(users, param).store
    /\ Respond("users", "DELETE", param, UsersDelete(users, param))
    /\ deletedIds' = Deleted("users", users, UsersDelete(users, param))
    /\ UNCHANGED <<products, tasks>>

UsersDeleteReq == \E param \in PathParams : UsersDeleteOn(param)

\* one GET request handled by ProductsList
ProductsListOn(query) ==
    /\ clock < MaxRequests
    /\ products' = ProductsList(products, query).store
    /\ Respond("products", "GET", NoParam, ProductsList(products, query))
    /\ UNCHANGED <<users, tasks, deletedIds>>

ProductsListReq == \E query \in ProductQueries : ProductsListOn(query)

\* one GET request handled by ProductsGet
ProductsGetOn(param) ==
    /\ clock < MaxRequests
    /\ products' = ProductsGet(products, param).store
    /\ Respond("products", "GET", param, ProductsGet(products, param))
    /\ UNCHANGED <<users, tasks, deletedIds>>

ProductsGetReq == \E param \in PathParams4 : ProductsGetOn(param)

\* one POST request handled by ProductsPost
ProductsPostOn(body) ==
    /\ clock < MaxRequests
    /\ products' = ProductsPost(products, body, Now).store
    /\ Respond("products", "POST", NoParam, ProductsPost(products, body, Now))
    /\ UNCHANGED <<users, tasks, deletedIds>>

ProductsPostReq == \E body \in ProductBodies : ProductsPostOn(body)

\* one PUT request handled by ProductsPut
ProductsPutOn(param, body) ==
    /\ clock < MaxRequests
    /\ products' = ProductsPut(products, param, body).store
    /\ Respond("products", "PUT", param, ProductsPut(products, param, body))
    /\ UNCHANGED <<users, tasks, deletedIds>>

ProductsPutReq == \E param \in UpdateParams, body \in ProductBodies : ProductsPutOn(param, body)

\* one DELETE request handled by ProductsDelete
ProductsDeleteOn(param) ==
    /\ clock < MaxRequests
    /\ products' = ProductsDelete(products, param).store
    /\ Respond("products", "DELETE", param, ProductsDelete(products, param))
    /\ deletedIds' = Deleted("products", products, ProductsDelete(products, param))
    /\ UNCHANGED <<users, tasks>>

ProductsDeleteReq == \E param \in PathParams4 : ProductsDeleteOn(param)

\* one GET request handled by TasksList
TasksListOn(query) ==
    /\ clock < MaxRequests
    /\ tasks' = TasksList(tasks, query).store
    /\ Respond("tasks", "GET", NoParam, TasksList(tasks, query))
    /\ UNCHANGED <<users, products, deletedIds>>

TasksListReq == \E query \in TaskQueries : TasksListOn(query)

\* one GET request handled by TasksGet
TasksGetOn(param) ==
    /\ clock < MaxRequests
    /\ tasks' = TasksGet(tasks, param).store
    /\ Respond("tasks", "GET", param, TasksGet(tasks, param))
    /\ UNCHANGED <<users, products, deletedIds>>

TasksGetReq == \E param \in PathParams4 : TasksGetOn(param)

\* one POST request handled by TasksPost
TasksPostOn(body) ==
    /\ clock < MaxRequests
    /\ tasks' = TasksPost(tasks, body, Now).store
    /\ Respond("tasks", "POST", NoParam, TasksPost(tasks, body, Now))
    /\ UNCHANGED <<users, products, deletedIds>>

TasksPostReq == \E body \in TaskBodies : TasksPostOn(body)

\* one PUT request handled by TasksPut
TasksPutOn(param, body) ==
    /\ clock < MaxRequests
    /\ tasks' = TasksPut(tasks, param, body, Now).store
    /\ Respond("tasks", "PUT", param, TasksPut(tasks, param, body, Now))
    /\ UNCHANGED <<users, products, deletedIds>>

TasksPutReq == \E param \in UpdateParams, body \in TaskBodies : TasksPutOn(param, body)

\* one PATCH request handled by TasksPatch
TasksPatchOn(param, body) ==
    /\ clock < MaxRequests
    /\ tasks' = TasksPatch(tasks, param, body, Now).store
    /\ Respond("tasks", "PATCH", param, TasksPatch(tasks, param, body, Now))
    /\ UNCHANGED <<users, products, deletedIds>>

TasksPatchReq == \E param \in UpdateParams, body \in TaskBodies : TasksPatchOn(param, body)

\* one DELETE request handled by TasksDelete
TasksDeleteOn(param) ==
    /\ clock < MaxRequests
    /\ tasks' = TasksDelete(tasks, param).store
    /\ Respond("tasks", "DELETE", param, TasksDelete(tasks, param))
    /\ deletedIds' = Deleted("tasks", tasks, TasksDelete(tasks, param))
    /\ UNCHANGED <<users, products>>

TasksDeleteReq == \E param \in PathParams4 : TasksDeleteOn(param)

Next ==
    \/ UsersListReq \/ UsersGetReq \/ UsersPostReq \/ UsersPutReq \/ UsersDeleteReq
    \/ ProductsListReq \/ ProductsGetReq \/ ProductsPostReq \/ ProductsPutReq
    \/ ProductsDeleteReq
    \/ TasksListReq \/ TasksGetReq \/ TasksPostReq \/ TasksPutReq \/ TasksPatchReq
    \/ TasksDeleteReq

Spec == Init /\ [][Next]_vars

\* ------------------------------------------------------------------------
\* The application: the main router under /api, the catch-all middleware
\* and the end of the middleware stack
\* ------------------------------------------------------------------------

\* the routers the main router mounts: router.use("/users", usersRouter) and
\* router.use("/products", productsRouter)
mounts == {"users", "products"}

Mounted(resource) == resource \in mounts

\* the answer to a request under /api that no mounted route matches: the
\* catch-all calls next() without an error, the error handling middleware is
\* skipped for it, and the stack ends with the 404 page of the framework,
\* which is no JSON body
NotFoundPage == [status |-> 404, has |-> {}, success |-> FALSE, count |-> 0,
                 data |-> <<>>, message |-> NoMsg, error |-> NoMsg]

\* one request under /api/<resource> that falls through the main router
Unmatched(resource, method, param) ==
    /\ clock < MaxRequests
    /\ res' = NotFoundPage
    /\ passed' = <<>>
    /\ replies' = 0
    /\ last' = [kind |-> resource, method |-> method, param |-> param]
    /\ clock' = Now
    /\ UNCHANGED <<users, products, tasks, nodeEnv, deletedIds, inflight, done>>

\* res.json({ message: "Hello, world!" }) of the test router
HelloJson == [status |-> 200, has |-> {"message"}, success |-> FALSE, count |-> 0,
              data |-> <<>>, message |-> Msg("Hello, world!"), error |-> NoMsg]

\* router.get("/hello") of the test router
TestHello == Reply(<<>>, HelloJson)

\* one GET request handled by TestHello
TestHelloReq ==
    /\ clock < MaxRequests
    /\ Respond("test", "GET", NoParam, TestHello)
    /\ UNCHANGED <<users, products, tasks, deletedIds>>

\* the routes of the tasks router: the method and whether the path has an :id
TaskEndpoints ==
    {<<"GET", FALSE>>, <<"GET", TRUE>>, <<"POST", FALSE>>, <<"PUT", TRUE>>,
     <<"PATCH", TRUE>>, <<"DELETE", TRUE>>}

\* the handler of the tasks router for a method and a path id (NoParam for
\* the path without an id)
TasksRouter(method, param) ==
    CASE method = "GET" /\ param = NoParam -> TasksListReq
      [] method = "GET" /\ param # NoParam -> TasksGetOn(param)
      [] method = "POST" -> TasksPostReq
      [] method = "PUT" -> \E body \in TaskBodies : TasksPutOn(param, body)
      [] method = "PATCH" -> \E body \in TaskBodies : TasksPatchOn(param, body)
      [] method = "DELETE" -> TasksDeleteOn(param)

\* a request to /api/users...
AppUsersReq ==
    /\ Mounted("users")
    /\ (UsersListReq \/ UsersGetReq \/ UsersPostReq \/ UsersPutReq \/ UsersDeleteReq)

\* a request to /api/products...
AppProductsReq ==
    /\ Mounted("products")
    /\ (\/ ProductsListReq \/ ProductsGetReq \/ ProductsPostReq \/ ProductsPutReq
        \/ ProductsDeleteReq)

\* a request to a task endpoint, /api/tasks or /api/tasks/:id
AppTasksOn(method, param) ==
    IF Mounted("tasks") THEN TasksRouter(method, param)
    ELSE Unmatched("tasks", method, param)

AppTasksReq ==
    \E endpoint \in TaskEndpoints :
        \E param \in IF endpoint[2] THEN PathParams4 ELSE {NoParam} :
            AppTasksOn(endpoint[1], param)

\* GET /api/test/hello
AppTestHelloReq ==
    IF Mounted("test") THEN TestHelloReq
    ELSE Unmatched("test", "GET", NoParam)

\* the paths of requests that match no route of the main router
p_api_none == <<"/", "a", "p", "i", "/", "n", "o", "n", "e">>

p_root == <<"/">>

p_about == <<"/", "a", "b", "o", "u", "t">>

p_app_js == <<"/", "j", "s", "/", "a", "p", "p", ".", "j", "s">>

OtherPaths == {p_api_none, p_root, p_about, p_app_js}

\* the paths express.static serves from the frontend directory; index.html
\* is served by the catch-all only ({ index: false })
staticFiles == {p_app_js}

\* req.path.startsWith("/api")
StartsWithApi(path) == Len(path) >= 4 /\ SubSeq(path, 1, 4) = <<"/", "a", "p", "i">>

\* a file sent as the body of the response
FileSent(name) == [status |-> 200, has |-> {}, success |-> FALSE, count |-> 0,
                   data |-> <<>>, message |-> Msg(name), error |-> NoMsg]

\* res.sendFile(path.join(frontendPath, "index.html"))
IndexHtml == FileSent("index.html")

\* the middleware stack behind the main router for a path it does not
\* match: express.static, the catch-all, and for a path under /api the end of
\* the stack, as the catch-all calls next() without an error and the error
\* handling middleware runs for errors only
Fallthrough(path) ==
    IF path \in staticFiles THEN FileSent("static")
    ELSE IF StartsWithApi(path) THEN NotFoundPage
    ELSE IndexHtml

\* one GET request for a path that matches no route of the main router
AppPathOn(path) ==
    /\ clock < MaxRequests
    /\ res' = Fallthrough(path)
    /\ passed' = <<>>
    /\ replies' = IF Fallthrough(path) = NotFoundPage THEN 0 ELSE 1
    /\ last' = [kind |-> "path", method |-> "GET", param |-> path]
    /\ clock' = Now
    /\ UNCHANGED <<users, products, tasks, nodeEnv, deletedIds, inflight, done>>

AppPathReq == \E path \in OtherPaths : AppPathOn(path)

AppNext ==
    \/ AppUsersReq \/ AppProductsReq \/ AppTasksReq \/ AppTestHelloReq
    \/ AppPathReq

\* the application as app.js builds it
SpecApp == Init /\ [][AppNext]_vars

\* ------------------------------------------------------------------------
\* Requests in flight together: creates of users and of tasks
\* ------------------------------------------------------------------------

\* the clients: each sends one request
Clients == 1..MaxRequests

CreateKinds == {"users", "tasks"}

\* the handler working on the array as it was when the request was received
Observed_AtArrival(current, atArrival) == atArrival

\* the array a handler works on: the handlers are synchronous functions, with
\* no await and no callback between their reads of the array and their
\* push, so a handler reads and writes the array as it is when it runs
Observed(current, atArrival) == current

\* router.post("/") of the router of this kind
Post(kind, list, body, now) ==
    IF kind = "users" THEN UsersPost(list, body, now) ELSE TasksPost(list, body, now)

\* a POST request is received and its body parsed; its handler has yet to run
Arrive(client, kind, body) ==
    /\ client = Cardinality(inflight) + Len(done) + 1
    /\ inflight' = inflight \cup
            {[client |-> client, kind |-> kind, body |-> body,
              seen |-> IF kind = "users" THEN users ELSE tasks]}
    /\ UNCHANGED <<users, products, tasks, nodeEnv, clock, last, res, passed,
                   replies, deletedIds, done>>

ArriveReq ==
    \E client \in Clients, kind \in CreateKinds :
        \E body \in IF kind = "users" THEN UserBodies ELSE TaskBodies :
            Arrive(client, kind, body)

\* the handler of a request in flight runs, from its first statement to its
\* response
RunPost(request) ==
    LET kind    == request.kind
        list    == Observed(IF kind = "users" THEN users ELSE tasks, request.seen)
        outcome == Post(kind, list, request.body, Now)
    IN  /\ request \in inflight
        /\ users' = IF kind = "users" THEN outcome.store ELSE users
        /\ tasks' = IF kind = "tasks" THEN outcome.store ELSE tasks
        /\ Answer(kind, "POST", NoParam, outcome)
        /\ inflight' = inflight \ {request}
        /\ done' = Append(done, [client |-> request.client, kind |-> kind,
                                 body |-> request.body, seen |-> request.seen,
                                 res |-> Boundary(outcome, nodeEnv)])
        /\ UNCHANGED <<products, deletedIds>>

RunReq == \E request \in inflight : RunPost(request)

ConcurrentNext == ArriveReq \/ RunReq

SpecConcurrent == Init /\ [][ConcurrentNext]_vars

\* ------------------------------------------------------------------------
\* Properties
\* ------------------------------------------------------------------------

\* the array of a kind
StoreOf(kind) == IF kind = "users" THEN users
                 ELSE IF kind = "products" THEN products
                 ELSE tasks

\* the last request was a create that passed validation
Created == last.method = "POST" /\ res.status = 201

C2_DeletedIdNeverReturns ==
    \A kind \in Kinds : Ids(StoreOf(kind)) \cap deletedIds[kind] = {}

\* C2 as amended: an id whose entity was deleted stays out of the collection
\* until a create returns it again, and a create returns such an id only
\* when it is larger than every id then in the collection
C2_DeletedIdReturnsOnlyAboveAll ==
    [][\A kind \in Kinds : \A d \in deletedIds'[kind] :
        d \in Ids(StoreOf(kind))' =>
            \/ d \in deletedIds[kind] /\ d \in Ids(StoreOf(kind))
            \/ /\ Created' /\ last'.kind = kind /\ res'.data[1].id = d
               /\ \A e \in Ids(StoreOf(kind)) : e < d]_vars

C2_Witness == Created /\ res.data[1].id \in deletedIds[last.kind]

\* C3: no two stored entities of a collection have the same id
C3_IdsUnique ==
    \A kind \in Kinds : \A i, j \in 1..Len(StoreOf(kind)) :
        i # j => StoreOf(kind)[i].id # StoreOf(kind)[j].id

C3_Witness ==
    /\ Created
    /\ deletedIds[last.kind] # {}
    /\ Len(StoreOf(last.kind)) >= 3

\* C4: no two stored users have the same email
C4_EmailsUnique ==
    \A i, j \in 1..Len(users) : i # j => users[i].email # users[j].email

C4_Witness ==
    /\ last.kind = "users" /\ last.method = "PUT" /\ res.status = 200
    /\ \E i \in 1..Len(users) : users[i].email = Str(s_new)

\* the email of the body is held by a user other than the one with this id
HeldByAnother(email, id) ==
    \E i \in 1..Len(users) : users[i].email = email /\ (id.isNaN \/ users[i].id # id.n)

\* the user the path parameter names, 0 when there is none
Target(list, param) ==
    IF \E i \in 1..Len(list) : ~ParseInt(param).isNaN /\ list[i].id = ParseInt(param).n
    THEN CHOOSE i \in 1..Len(list) : list[i].id = ParseInt(param).n
    ELSE 0

Conflict == res.status = 409

\* the last request was a PUT of this kind
PutOf(kind) == last.kind = kind /\ last.method = "PUT"

\* C5 as stated: a user create, or a user PUT on an existing user, whose
\* email is held by a different user is answered with 409 and leaves the
\* users unchanged; a PUT with the user's own email is no conflict.
\* Read step by step: a step that is not a 409 with the users unchanged is
\* the answer to no such request, and a 409 is the answer to no PUT that
\* carries the user's own email
C5_DuplicateEmailIsConflict ==
    [][/\ (last'.kind = "users" /\ last'.method = "POST" /\ ~(Conflict' /\ users' = users)) =>
            \A body \in UserBodies :
                HeldByAnother(body.email, NaN) => ~UsersPostOn(body)
       /\ (PutOf("users")' /\ Target(users, last'.param) # 0) =>
            /\ ~(Conflict' /\ users' = users) =>
                    \A body \in UserBodies :
                        HeldByAnother(body.email, ParseInt(last'.param))
                            => ~UsersPutOn(last'.param, body)
            /\ Conflict' =>
                    \A body \in UserBodies :
                        body.email = users[Target(users, last'.param)].email
                            => ~UsersPutOn(last'.param, body)]_vars

\* C5 as amended: the create must also supply a name
C5_DuplicateEmailIsConflictGivenName ==
    [][/\ (last'.kind = "users" /\ last'.method = "POST" /\ ~(Conflict' /\ users' = users)) =>
            \A body \in UserBodies :
                (HeldByAnother(body.email, NaN) /\ Truthy(body.name)) => ~UsersPostOn(body)
       /\ (PutOf("users")' /\ Target(users, last'.param) # 0) =>
            /\ ~(Conflict' /\ users' = users) =>
                    \A body \in UserBodies :
                        HeldByAnother(body.email, ParseInt(last'.param))
                            => ~UsersPutOn(last'.param, body)
            /\ Conflict' =>
                    \A body \in UserBodies :
                        body.email = users[Target(users, last'.param)].email
                            => ~UsersPutOn(last'.param, body)]_vars

C5_Witness == last.kind = "users" /\ last.method = "PUT" /\ Conflict

\* C6: a request answered with an error status leaves the three collections
\* as they were
C6_ErrorLeavesStoreUnchanged ==
    [][res'.status \in {400, 404, 409, 500} => UNCHANGED <<users, products, tasks>>]_vars

\* C7: every stored task has a status and a priority among the declared
\* values, in lower case
C7_EnumsValid ==
    \A i \in 1..Len(tasks) :
        /\ tasks[i].status \in {Str(s_pending), Str(s_in_progress), Str(s_completed)}
        /\ tasks[i].priority \in {Str(s_low), Str(s_medium), Str(s_high)}

C7_Witness ==
    \E i \in 1..Len(tasks) :
        /\ tasks[i].title = Str(<<"B">>)
        /\ tasks[i].status = Str(s_completed)
        /\ tasks[i].priority = Str(s_high)

Rejected == res.status = 400

\* C8 as stated: a PUT on an existing entity whose body omits any mandatory
\* field of its kind is rejected with 400 and does not change the entity.
\* Read step by step: a PUT step on an existing entity that is not a 400 with
\* the collection unchanged is the answer to no body that omits such a field
C8_PutRequiresEveryField ==
    [][/\ (PutOf("users")' /\ Target(users, last'.param) # 0
                /\ ~(Rejected' /\ users' = users)) =>
            \A body \in UserBodies :
                (body.name = Undefined \/ body.email = Undefined)
                    => ~UsersPutOn(last'.param, body)
       /\ (PutOf("products")' /\ Target(products, last'.param) # 0
                /\ ~(Rejected' /\ products' = products)) =>
            \A body \in ProductBodies :
                (\E field \in {"name", "description", "price", "category", "stock"} :
                        body[field] = Undefined)
                    => ~ProductsPutOn(last'.param, body)
       /\ (PutOf("tasks")' /\ Target(tasks, last'.param) # 0
                /\ ~(Rejected' /\ tasks' = tasks)) =>
            \A body \in TaskBodies :
                body.title = Undefined => ~TasksPutOn(last'.param, body)]_vars

\* C8 as amended: a PUT on an existing user or product is rejected with 400
\* and changes nothing when its body omits every field of the kind; a PUT on
\* an existing task is rejected with 400 and changes nothing when its body
\* omits the title
C8_PutRequiresSomeField ==
    [][/\ (PutOf("users")' /\ Target(users, last'.param) # 0
                /\ ~(Rejected' /\ users' = users)) =>
            \A body \in UserBodies :
                (body.name = Undefined /\ body.email = Undefined)
                    => ~UsersPutOn(last'.param, body)
       /\ (PutOf("products")' /\ Target(products, last'.param) # 0
                /\ ~(Rejected' /\ products' = products)) =>
            \A body \in ProductBodies :
                (\A field \in {"name", "description", "price", "category", "stock"} :
                        body[field] = Undefined)
                    => ~ProductsPutOn(last'.param, body)
       /\ (PutOf("tasks")' /\ Target(tasks, last'.param) # 0
                /\ ~(Rejected' /\ tasks' = tasks)) =>
            \A body \in TaskBodies :
                body.title = Undefined => ~TasksPutOn(last'.param, body)]_vars

C8_Witness ==
    /\ PutOf("users") /\ Rejected
    /\ Target(users, last.param) # 0
    /\ res.error.text = "At least one field (name or email) is required for update"

\* a body with none of the fields a task request reads
EmptyTaskBody == TaskBody(Undefined, Undefined, Undefined, Undefined, Undefined)

\* C9: a PATCH on an existing task whose body has none of title,
\* description, status, priority and dueDate is answered with 400 and leaves
\* every field of the task, updatedAt included, unchanged
C9_EmptyPatchRejected ==
    [][(last'.kind = "tasks" /\ last'.method = "PATCH" /\ Target(tasks, last'.param) # 0) =>
        (TasksPatchOn(last'.param, EmptyTaskBody)
            => (res'.status = 400 /\ tasks' = tasks))]_vars

C9_Witness ==
    /\ last.kind = "tasks" /\ last.method = "PATCH"
    /\ Target(tasks, last.param) # 0
    /\ res.status = 400
    /\ res.error.text = "At least one field is required for update"

\* the resource name of a kind, as the messages spell it
KindName(kind) == IF kind = "users" THEN "User"
                  ELSE IF kind = "products" THEN "Product"
                  ELSE "Task"

\* C10: a delete for an id that is not in the collection is answered with
\* 404 and the message '<Kind> with ID <id> not found', and the collection
\* keeps the same entities in the same order
C10_DeleteMissingIs404 ==
    [][\A kind \in Kinds : (last'.kind = kind /\ last'.method = "DELETE") =>
        LET id == ParseInt(last'.param)
        IN  (~id.isNaN /\ \A i \in 1..Len(StoreOf(kind)) : StoreOf(kind)[i].id # id.n)
                => /\ res'.status = 404
                   /\ res'.error.text = KindName(kind) \o " with ID ${id} not found"
                   /\ res'.error.args = <<id>>
                   /\ StoreOf(kind)' = StoreOf(kind)]_vars

C10_Witness ==
    /\ last.method = "DELETE" /\ res.status = 404
    /\ ~ParseInt(last.param).isNaN
    /\ Len(StoreOf(last.kind)) > 0

\* C11: a PUT or PATCH leaves the number of entities, and the id and the
\* createdAt of each, as they were, although every request body carries an
\* id and a createdAt; and over any step an entity that stays in its
\* collection keeps its createdAt
C11_IdAndCreatedAtConstant ==
    [][\A kind \in Kinds :
        /\ (last'.kind = kind /\ last'.method \in {"PUT", "PATCH"}) =>
                /\ Len(StoreOf(kind)') = Len(StoreOf(kind))
                /\ \A i \in 1..Len(StoreOf(kind)) :
                        /\ StoreOf(kind)'[i].id = StoreOf(kind)[i].id
                        /\ StoreOf(kind)'[i].createdAt = StoreOf(kind)[i].createdAt
        /\ \A i \in 1..Len(StoreOf(kind)) : \A j \in 1..Len(StoreOf(kind)') :
                StoreOf(kind)'[j].id = StoreOf(kind)[i].id
                    => StoreOf(kind)'[j].createdAt = StoreOf(kind)[i].createdAt]_vars

\* a PUT on a user created by the request before it succeeded
C11_Witness ==
    /\ PutOf("users") /\ res.status = 200
    /\ res.data[1].id = 3
    /\ res.data[1].createdAt = 1
    /\ clock = 2

\* the fields of a task a request body can set
TaskFields == {"title", "description", "status", "priority", "dueDate"}

\* C12: a step that changes the title, description, status, priority or
\* dueDate of a stored task sets the updatedAt of that task to the time of
\* the request
C12_ChangeRefreshesUpdatedAt ==
    [][\A i \in 1..Len(tasks) : \A j \in 1..Len(tasks') :
        (/\ tasks'[j].id = tasks[i].id
         /\ \E field \in TaskFields : tasks'[j][field] # tasks[i][field])
            => tasks'[j].updatedAt = clock']_vars

\* the last request was a list of this kind
ListOf(kind) == last.kind = kind /\ last.method = "GET" /\ last.param = NoParam

\* the rank of a task by priority
Rank(task) == CASE task.priority = Str(s_low) -> 1
                [] task.priority = Str(s_medium) -> 2
                [] task.priority = Str(s_high) -> 3

\* the place of a task in the tasks array
StoreIndex(task) == CHOOSE i \in 1..Len(tasks) : tasks[i].id = task.id

\* the task passes the status and priority filters of the query
Matches(task, query) ==
    /\ (Truthy(query.status) /\ Includes(validStatuses, ToLowerCase(query.status.s)))
            => task.status.s = ToLowerCase(query.status.s)
    /\ (Truthy(query.priority) /\ Includes(validPriorities, ToLowerCase(query.priority.s)))
            => task.priority.s = ToLowerCase(query.priority.s)

\* C13: a list of the tasks with sortBy=priority returns each task that
\* passes the filters once, by rank low < medium < high, ascending unless
\* order=desc and then descending, and tasks of equal priority in the order
\* of the store
C13_PrioritySortOrdered ==
    [][ListOf("tasks")' =>
        \A query \in TaskQueries :
            (query.sortBy = Str(s_priority) /\ TasksListOn(query)) =>
                LET data == res'.data
                    dir  == IF query.order = Str(s_desc) THEN -1 ELSE 1
                IN  /\ Len(data) = Cardinality({i \in 1..Len(tasks) : Matches(tasks[i], query)})
                    /\ \A i \in 1..Len(tasks) :
                            Matches(tasks[i], query) => \E k \in 1..Len(data) : data[k] = tasks[i]
                    /\ \A k, l \in 1..Len(data) :
                            k < l => /\ dir * Rank(data[k]) <= dir * Rank(data[l])
                                     /\ Rank(data[k]) = Rank(data[l])
                                            => StoreIndex(data[k]) < StoreIndex(data[l])]_vars

\* the four tasks high, medium, low, medium listed by descending priority
C13_Witness ==
    /\ ListOf("tasks")
    /\ Len(tasks) = 4 /\ Len(res.data) = 4
    /\ [k \in 1..4 |-> tasks[k].id] = <<1, 2, 3, 4>>
    /\ [k \in 1..4 |-> res.data[k].id] = <<1, 2, 4, 3>>

\* the query value reads as a number
Numeric(value) == Truthy(value) /\ ~ParseFloat(value.s).isNaN

\* C14: a list of the products with numeric minPrice and maxPrice is
\* answered with exactly the stored products whose price is within the two
\* bounds, the bounds included, and whose category, when one is asked for,
\* is the one asked for whatever the case of its letters, in store order
C14_PriceRangeAndCategory ==
    [][ListOf("products")' =>
        \A query \in ProductQueries :
            (Numeric(query.minPrice) /\ Numeric(query.maxPrice) /\ ProductsListOn(query)) =>
                LET InRange(p) ==
                        /\ ParseFloat(query.minPrice.s).n <= p.price.n
                        /\ p.price.n <= ParseFloat(query.maxPrice.s).n
                        /\ Truthy(query.category) =>
                                /\ IsString(p.category)
                                /\ ToLowerCase(p.category.s) = ToLowerCase(query.category.s)
                IN  /\ res'.status = 200
                    /\ res'.data = SelectSeq(products, InRange)]_vars

\* C15: GET /api/test/hello is answered with status 200 and a JSON body
\* whose message is 'Hello, world!'
C15_HelloAnswered ==
    last.kind = "test" =>
        /\ res.status = 200
        /\ "message" \in res.has
        /\ res.message = Msg("Hello, world!")

\* C16: a request to a task endpoint is handled by the handler the tasks
\* router has for its method and path
C16_TaskEndpointsDispatched ==
    [][last'.kind = "tasks" => TasksRouter(last'.method, last'.param)]_vars

\* C17: an error passed to next() is answered with its statusCode, or with
\* 500 when it has none, and with a JSON body of success false and the
\* message of the error under error.message; the body has a stack exactly
\* when NODE_ENV is development
C17_ErrorsAnsweredUniformly ==
    passed # <<>> =>
        /\ Len(passed) = 1
        /\ passed[1].statusCode \in {0, 400, 404, 409}
        /\ res.status = IF passed[1].statusCode = 0 THEN 500 ELSE passed[1].statusCode
        /\ res.success = FALSE
        /\ {"success", "error"} \subseteq res.has
        /\ res.has \subseteq {"success", "error", "stack"}
        /\ res.error = passed[1].message
        /\ res.error.text # ""
        /\ "stack" \in res.has <=> nodeEnv = "development"

\* a thrown TypeError, which has no statusCode, answered in production
C17_Witness ==
    /\ passed # <<>> /\ passed[1].statusCode = 0
    /\ nodeEnv = "production"
    /\ res.status = 500 /\ "stack" \notin res.has

\* the last request had a path id that parses to no integer
MalformedId == last.param # NoParam /\ ParseInt(last.param).isNaN

\* C18: a request whose path id parses to no integer is answered, whatever
\* its body, with 400 'Invalid task ID' on the task routes and with 404 on
\* the user and product routes, and changes no collection
C18_MalformedIdRejected ==
    [][MalformedId' =>
        /\ UNCHANGED <<users, products, tasks>>
        /\ last'.kind = "tasks" =>
                /\ res'.status = 400
                /\ res'.error = Msg("Invalid task ID")
        /\ last'.kind \in {"users", "products"} =>
                /\ res'.status = 404
                /\ res'.error.args = <<NaN>>]_vars

C18_Witness ==
    /\ MalformedId
    /\ last.kind = "tasks" /\ last.method = "PATCH"
    /\ res.status = 400

\* a text that is empty or has white space only
Blank(value) == IsString(value) /\ Trim(value.s) = <<>>

\* C19: a create, or a PUT on an existing entity, whose user name or task
\* title is empty or white space only is rejected with 400 and leaves the
\* collection unchanged, and no stored user has such a name and no stored
\* task such a title.  Read step by step: a create or PUT step that is not a
\* 400 with the collection unchanged is the answer to no such body
C19_BlankTextRejected ==
    [][/\ (last'.kind = "users" /\ last'.method = "POST"
                /\ ~(Rejected' /\ users' = users)) =>
            \A body \in UserBodies : Blank(body.name) => ~UsersPostOn(body)
       /\ (PutOf("users")' /\ Target(users, last'.param) # 0
                /\ ~(Rejected' /\ users' = users)) =>
            \A body \in UserBodies : Blank(body.name) => ~UsersPutOn(last'.param, body)
       /\ (last'.kind = "tasks" /\ last'.method = "POST"
                /\ ~(Rejected' /\ tasks' = tasks)) =>
            \A body \in TaskBodies : Blank(body.title) => ~TasksPostOn(body)
       /\ (PutOf("tasks")' /\ Target(tasks, last'.param) # 0
                /\ ~(Rejected' /\ tasks' = tasks)) =>
            \A body \in TaskBodies : Blank(body.title) => ~TasksPutOn(last'.param, body)
       /\ \A i \in 1..Len(users') : ~Blank(users'[i].name)
       /\ \A i \in 1..Len(tasks') : ~Blank(tasks'[i].title)]_vars

\* C20: a task create that passes validation stores and returns a task with
\* the trimmed title, the supplied status in lower case or "pending", the
\* supplied priority in lower case or "medium", the description "" when the
\* body has none and the dueDate null when the body has none; a get by the
\* returned id that follows the create returns exactly that task
C20_CreateDefaultsRoundTrip ==
    [][/\ (Created' /\ last'.kind = "tasks") =>
            \A body \in TaskBodies :
                LET task == res'.data[1]
                IN  ~(/\ tasks'[Len(tasks')] = task
                      /\ task.title = Str(Trim(body.title.s))
                      /\ task.status = (IF body.status = Undefined THEN Str(s_pending)
                                        ELSE Str(ToLowerCase(body.status.s)))
                      /\ task.priority = (IF body.priority = Undefined THEN Str(s_medium)
                                          ELSE Str(ToLowerCase(body.priority.s)))
                      /\ (body.description = Undefined => task.description = Str(<<>>))
                      /\ (body.dueDate = Undefined => task.dueDate = Null))
                        => ~TasksPostOn(body)
       /\ (/\ Created /\ last.kind = "tasks"
           /\ last'.kind = "tasks" /\ last'.method = "GET" /\ last'.param # NoParam
           /\ ~ParseInt(last'.param).isNaN
           /\ ParseInt(last'.param).n = res.data[1].id)
            => (res'.status = 200 /\ res'.data[1] = res.data[1])]_vars

C20_Witness ==
    /\ last.kind = "tasks" /\ last.method = "GET" /\ last.param = <<"4">>
    /\ res.status = 200
    /\ tasks[Len(tasks)] = res.data[1]
    /\ res.data[1].id = 4
    /\ res.data[1].title = Str(s_A)
    /\ res.data[1].status = Str(s_pending)
    /\ res.data[1].priority = Str(s_medium)
    /\ res.data[1].description = Str(<<>>)
    /\ res.data[1].dueDate = Null

\* C21: a task PATCH answered 200 changes, in the target task, only fields
\* that its body has and updatedAt: every field the body does not have, the
\* id and createdAt keep their values, and every other task is unchanged
C21_PatchChangesSuppliedOnly ==
    [][(last'.kind = "tasks" /\ last'.method = "PATCH" /\ res'.status = 200) =>
        LET i == Target(tasks, last'.param)
        IN  /\ i # 0
            /\ Len(tasks') = Len(tasks)
            /\ \A k \in 1..Len(tasks) : k # i => tasks'[k] = tasks[k]
            /\ tasks'[i].id = tasks[i].id
            /\ tasks'[i].createdAt = tasks[i].createdAt
            /\ \A field \in TaskFields :
                    tasks'[i][field] # tasks[i][field] =>
                        \A body \in TaskBodies :
                            body[field] = Undefined => ~TasksPatchOn(last'.param, body)]_vars

C21_Witness ==
    /\ last.kind = "tasks" /\ last.method = "PATCH" /\ last.param = <<"1">>
    /\ res.status = 200
    /\ tasks[1].status = Str(s_completed)
    /\ tasks[1].updatedAt = clock /\ clock > 0
    /\ tasks[1].title = initialTasks[1].title
    /\ tasks[1].description = initialTasks[1].description
    /\ tasks[1].priority = initialTasks[1].priority
    /\ tasks[1].dueDate = initialTasks[1].dueDate
    /\ tasks[2] = initialTasks[2] /\ tasks[3] = initialTasks[3]

\* C22: a list request on any kind is answered with status 200, success
\* true and a count that is the number of entities in data
C22_ListAlwaysSucceeds ==
    \A kind \in Kinds : ListOf(kind) =>
        (res.status = 200 /\ res.success /\ res.count = Len(res.data))

\* the fields of an entity of this kind that a request body sets
FieldsOf(kind) ==
    CASE kind = "users" -> {"name", "email"}
      [] kind = "products" -> {"name", "description", "price", "category", "stock"}
      [] kind = "tasks" -> TaskFields

\* a PUT of this kind on this path id with this body
PutOn(kind, param, body) ==
    CASE kind = "users" -> UsersPutOn(param, body)
      [] kind = "products" -> ProductsPutOn(param, body)
      [] kind = "tasks" -> TasksPutOn(param, body)

\* the request bodies of this kind
BodiesOf(kind) ==
    CASE kind = "users" -> UserBodies
      [] kind = "products" -> ProductBodies
      [] kind = "tasks" -> TaskBodies

C24_ReadsLeaveStore ==
    [][/\ last'.method = "GET" =>
            (users' = users /\ products' = products /\ tasks' = tasks)
       /\ ListOf("tasks")' =>
            \A query \in TaskQueries :
                (/\ Truthy(query.sortBy)
                 /\ ~Includes(validSortFields, query.sortBy.s)
                 /\ res'.data # SelectSeq(tasks, LAMBDA task : Matches(task, query)))
                    => ~TasksListOn(query)]_vars

C24_Witness ==
    /\ ListOf("tasks")
    /\ tasks = initialTasks
    /\ Len(res.data) = 3
    /\ [k \in 1..3 |-> res.data[k].id] = <<3, 2, 1>>
    /\ [k \in 1..3 |-> tasks[k].id] = <<1, 2, 3>>

\* the declared values of the status and of the priority of a task
DeclaredStatuses == {s_pending, s_in_progress, s_completed}

DeclaredPriorities == {s_low, s_medium, s_high}

\* the query value is given and is, in lower case, none of these values
Undeclared(value, declared) == Truthy(value) /\ ToLowerCase(value.s) \notin declared

\* the query value is given and is, in lower case, one of these values
Declared(value, declared) == Truthy(value) /\ ToLowerCase(value.s) \in declared

\* what the task list answers to this query in the present store
Listed(query) == TasksList(tasks, query).sent[1].data

\* the queries of the model by their status and priority values
UndeclaredStatusQueries ==
    {query \in TaskQueries : Undeclared(query.status, DeclaredStatuses)}

UndeclaredPriorityQueries ==
    {query \in TaskQueries : Undeclared(query.priority, DeclaredPriorities)}

DeclaredBothQueries ==
    {query \in TaskQueries : /\ Declared(query.status, DeclaredStatuses)
                             /\ Declared(query.priority, DeclaredPriorities)}

\* data holds each task of the store that has this status and this priority,
\* once, and no other
HoldsExactly(data, status, priority) ==
    /\ \A i \in 1..Len(tasks) :
            (tasks[i].status.s = status /\ tasks[i].priority.s = priority)
                <=> \E k \in 1..Len(data) : data[k] = tasks[i]
    /\ \A k \in 1..Len(data) : \E i \in 1..Len(tasks) : tasks[i] = data[k]
    /\ \A k, l \in 1..Len(data) : data[k].id = data[l].id => k = l

\* C25: a task list whose status (or priority) is given and is, in lower
\* case, none of the declared values returns what the same request without
\* status (or priority) returns; a task list with a declared status and a
\* declared priority returns each task that has both, once, and no other
C25_UndeclaredFilterIgnored ==
    [][ListOf("tasks")' =>
        /\ \A query \in UndeclaredStatusQueries :
                res'.data # Listed([query EXCEPT !.status = Undefined])
                    => ~TasksListOn(query)
        /\ \A query \in UndeclaredPriorityQueries :
                res'.data # Listed([query EXCEPT !.priority = Undefined])
                    => ~TasksListOn(query)
        /\ \A query \in DeclaredBothQueries :
                ~HoldsExactly(res'.data, ToLowerCase(query.status.s),
                              ToLowerCase(query.priority.s))
                    => ~TasksListOn(query)]_vars

C25_Witness ==
    /\ ListOf("tasks")
    /\ Len(tasks) = 4 /\ tasks[4].status = Str(s_completed)
    /\ tasks[3].status = Str(s_completed)
    /\ Len(res.data) = 2
    /\ res.data[1] = tasks[3] /\ res.data[2] = tasks[4]

\* C26: a DELETE for an id that is in the array is answered 200 with the
\* entity of that id, and the array is then the array before without that
\* one entity, the others unchanged and in their order; a get by id, PUT,
\* PATCH or DELETE for an id that was deleted and is not in the array is
\* answered 404 and leaves the array as it is
C26_DeleteRemovesOne ==
    [][\A kind \in Kinds :
        (last'.kind = kind /\ last'.param # NoParam) =>
            LET before == StoreOf(kind)
                after  == StoreOf(kind)'
                i      == Target(before, last'.param)
                id     == ParseInt(last'.param)
            IN  /\ (last'.method = "DELETE" /\ i # 0) =>
                    /\ res'.status = 200
                    /\ res'.data = <<before[i]>>
                    /\ Len(after) = Len(before) - 1
                    /\ \A k \in 1..Len(after) :
                            after[k] = IF k < i THEN before[k] ELSE before[k + 1]
                /\ (/\ ~id.isNaN
                    /\ id.n \in deletedIds[kind]
                    /\ id.n \notin Ids(before)) =>
                        (res'.status = 404 /\ after = before)]_vars

C26_Witness ==
    /\ last.kind = "tasks" /\ last.method = "PATCH" /\ last.param = <<"1">>
    /\ res.status = 404
    /\ deletedIds["tasks"] = {1}
    /\ tasks = <<initialTasks[2], initialTasks[3]>>

\* the arrays and the responses when these creates are handled one at a
\* time, in this order, from the arrays as created
RECURSIVE Sequential(_)
Sequential(requests) ==
    IF requests = <<>>
    THEN [users |-> initialUsers, tasks |-> initialTasks, answers |-> <<>>]
    ELSE LET before  == Sequential(SubSeq(requests, 1, Len(requests) - 1))
             request == requests[Len(requests)]
             outcome == Post(request.kind, before[request.kind], request.body,
                             Len(requests))
         IN  [users |-> IF request.kind = "users" THEN outcome.store ELSE before.users,
              tasks |-> IF request.kind = "tasks" THEN outcome.store ELSE before.tasks,
              answers |-> Append(before.answers, Boundary(outcome, nodeEnv))]

ZeroPriced(body) ==
    /\ body.price = Num(0) /\ body.stock = Num(0)
    /\ IsString(body.name) /\ Truthy(body.name)
    /\ IsString(body.description) /\ Truthy(body.description)
    /\ IsString(body.category) /\ Truthy(body.category)

ErrorEnvelope == {"success", "error"} \subseteq res.has /\ ~res.success

\* C29: a request for a path that starts with /api and matches no mounted
\* route is not answered with index.html and is answered with the JSON of
\* the error handling middleware (success false, error.message); a request
\* for a path that does not start with /api and is no static file is
\* answered with index.html
C29_UnmatchedApiGetsEnvelope ==
    last.kind = "path" =>
        IF StartsWithApi(last.param)
        THEN res # IndexHtml /\ ErrorEnvelope /\ res.error # NoMsg
        ELSE last.param \notin staticFiles => res = IndexHtml

\* C30: every step of a user, product or task handler ends with one
\* response sent and no error passed on, or with one error passed on and no
\* response sent; the error passed on is the only one and is answered by the
\* error handling middleware; a PUT, PATCH or DELETE on an id that is a
\* number and is not in the array is answered 404 whatever its body
C30_OneOutcome ==
    [][last'.kind \in Kinds =>
        /\ Len(passed') + replies' = 1
        /\ passed' = <<>> => (res'.success /\ res'.status \in {200, 201})
        /\ passed' # <<>> =>
                (~res'.success /\ res' = errorHandler(passed'[1], nodeEnv))
        /\ (/\ last'.method \in {"PUT", "PATCH", "DELETE"}
            /\ ~ParseInt(last'.param).isNaN
            /\ Target(StoreOf(last'.kind), last'.param) = 0)
                => (res'.status = 404 /\ passed'[1].statusCode = 404)]_vars

C30_Witness ==
    /\ PutOf("tasks") /\ last.param = <<"4">>
    /\ Len(passed) = 1 /\ replies = 0
    /\ res.status = 404
    /\ Len(tasks) = 3

====
